---------------------------- MODULE Spec2Model ----------------------------
(***************************************************************************)
(* Model of tree_labeling.py (tree-graph-labeling 1.0.1): the enumeration  *)
(* of the labelings of a free tree given as a pre-order depth sequence.    *)
(*                                                                         *)
(* Python values are modelled as follows.                                  *)
(*   - a list element or the max_label argument is a record [ty, v]: ty is *)
(*     the Python type ("int", "float", "str", "none"), v its number (0    *)
(*     for a str or None);                                                 *)
(*   - the first argument of get_labeled_graphs is [list, items]: list is  *)
(*     FALSE for an object that is not a list;                             *)
(*   - Python lists are sequences; a 0-based index k is position k + 1;    *)
(*   - the dictionary t is a function from node keys to Node records; the  *)
(*     parent None is the key NoParent.                                    *)
(***************************************************************************)
EXTENDS Integers, Sequences, FiniteSets, TLC

\* Longest depth sequence drawn from the tree encodings.
MaxLen == 5
\* Largest alphabet size drawn.
MaxLabel == 2
\* Longest list drawn from the arbitrary (possibly malformed) arguments.
MaxRawLen == 3
\* Longest depth sequence drawn when only the trees are built (BuildSpec).
MaxBuildLen == 7

VARIABLES
    arg,        \* first argument of get_labeled_graphs
    max_label,  \* second argument of get_labeled_graphs
    pc,         \* position in get_labeled_graphs / the next_labeling generator
    err,        \* the exception raised, "none" when none
    centers,    \* gen_tree_from_list: the list of (distance, index) pairs
    lst,        \* gen_tree_from_list: the (balanced) list it returns
    origin,     \* for each position of lst, the input index its node came from
    t,          \* the dictionary of Node objects
    et,         \* the dictionary of the equivalence tree's Node objects
    out,        \* the vector yielded last
    yielded     \* every vector yielded so far, in order

vars == <<arg, max_label, pc, err, centers, lst, origin, t, et, out, yielded>>

----------------------------------------------------------------------------
(* Generic list helpers (Python list semantics).                           *)

Min2(a, b) == IF a <= b THEN a ELSE b
Max2(a, b) == IF a >= b THEN a ELSE b

\* s[a:b] for 0 <= a, 0 <= b
Slice(s, a, b) == SubSeq(s, a + 1, Min2(b, Len(s)))

\* s[a:] for 0 <= a
SliceFrom(s, a) == SubSeq(s, a + 1, Len(s))

\* del s[k], k 0-based and in range
DelAt(s, k) == SubSeq(s, 1, k) \o SubSeq(s, k + 2, Len(s))

\* b ** e
RECURSIVE Pow(_, _)
Pow(b, e) == IF e = 0 THEN 1 ELSE b * Pow(b, e - 1)

----------------------------------------------------------------------------
(* Inputs.                                                                 *)

IntElem(k) == [ty |-> "int", v |-> k]

\* Depth sequences that encode a tree: first element 0, every later element
\* between 1 and its predecessor plus 1.
RECURSIVE TreeSeqs(_)
TreeSeqs(n) ==
    IF n = 1 THEN {<<0>>}
    ELSE UNION {{Append(s, d) : d \in 1..(s[n - 1] + 1)} : s \in TreeSeqs(n - 1)}

IsTreeSeq(s) ==
    /\ Len(s) >= 1
    /\ s[1] = 0
    /\ \A i \in 2..Len(s) : s[i] >= 1 /\ s[i] <= s[i - 1] + 1

AsList(s) == [list |-> TRUE, items |-> [i \in 1..Len(s) |-> IntElem(s[i])]]

TreeArgs == {AsList(s) : s \in UNION {TreeSeqs(n) : n \in 1..MaxLen}}

\* Arbitrary elements: integers around the legal depths, a float, a string, None.
RawElems ==
    {IntElem(k) : k \in -1..2} \cup
    {[ty |-> "float", v |-> 0], [ty |-> "str", v |-> 0], [ty |-> "none", v |-> 0]}

RawArgs ==
    {[list |-> FALSE, items |-> <<>>]} \cup
    {[list |-> TRUE, items |-> s] : s \in UNION {[1..n -> RawElems] : n \in 0..MaxRawLen}}

MaxLabelArgs ==
    {IntElem(k) : k \in -1..MaxLabel} \cup {[ty |-> "str", v |-> 0]}

\* The integers of a list whose elements are all of type int.
RECURSIVE Ints(_)
Ints(items) ==
    IF Len(items) = 0 THEN <<>> ELSE <<items[1].v>> \o Ints(Tail(items))

----------------------------------------------------------------------------
(* is_proper_traversal and the argument checks of get_labeled_graphs.      *)
(* Python 2 orders values of different types: None is smaller than every   *)
(* number and every str is greater than every number.                      *)

\* e != 0
PyNeZero(e) == IF e.ty \in {"int", "float"} THEN e.v # 0 ELSE TRUE

\* e > k, k an int
PyGtInt(e, k) ==
    CASE e.ty \in {"int", "float"} -> e.v > k
      [] e.ty = "str" -> TRUE
      [] OTHER -> FALSE

\* improper_at with the "+ 1" of the comparison forgotten.
improper_at_strict(items, i) ==
    items[i + 1].ty # "int" \/ PyGtInt(items[i + 2], items[i + 1].v)

\* The condition that makes the loop of is_proper_traversal return False at
\* (0-based) index i.
improper_at(items, i) ==
    items[i + 1].ty # "int" \/ PyGtInt(items[i + 2], items[i + 1].v + 1)

\* The for loop of is_proper_traversal from index i on, up to the final return.
RECURSIVE is_proper_loop(_, _)
is_proper_loop(items, i) ==
    IF i >= Len(items) - 1 THEN items[Len(items)].ty = "int"
    ELSE IF improper_at(items, i) THEN FALSE
    ELSE is_proper_loop(items, i + 1)

is_proper_traversal(items) ==
    IF Len(items) = 0 \/ PyNeZero(items[1]) THEN FALSE
    ELSE is_proper_loop(items, 0)

\* First check of get_labeled_graphs: the condition of the first raise.
bad_tree_description(a) == ~a.list \/ ~is_proper_traversal(a.items)

\* Second check of get_labeled_graphs: the condition of the second raise.
bad_alphabet_size(ml) == ml.ty # "int" \/ ml.v <= 0

----------------------------------------------------------------------------
(* find_center.  ind_lst is a list of pairs <<distance, original index>>.  *)

\* One pass of the inner while loop of find_center from index i on: counts the
\* children of the actual root and deletes the leaves.
RECURSIVE find_center_pass(_, _, _, _)
find_center_pass(ind_lst, i, cnt_root_children, root_children_distance) ==
    IF i >= Len(ind_lst) THEN [ind_lst |-> ind_lst, cnt |-> cnt_root_children]
    ELSE LET cnt == IF ind_lst[i + 1][1] = root_children_distance
                    THEN cnt_root_children + 1 ELSE cnt_root_children
         IN  IF i = Len(ind_lst) - 1 \/ ind_lst[i + 2][1] <= ind_lst[i + 1][1]
             THEN find_center_pass(DelAt(ind_lst, i), i, cnt, root_children_distance)
             ELSE find_center_pass(ind_lst, i + 1, cnt, root_children_distance)

\* root_is_leaf with the bound off by one: a root with one child is kept.
root_is_leaf_only_childless(cnt_root_children) == cnt_root_children < 1

\* The root is deleted too when it has fewer than two children.
root_is_leaf(cnt_root_children) == cnt_root_children < 2

\* The outer while True loop of find_center.  del ind_lst[0] on an empty list
\* raises IndexError.
RECURSIVE find_center_loop(_)
find_center_loop(ind_lst) ==
    LET p == find_center_pass(ind_lst, 0, 0, ind_lst[1][1] + 1) IN
    IF root_is_leaf(p.cnt) /\ Len(p.ind_lst) = 0
    THEN [err |-> "IndexError", centers |-> <<>>]
    ELSE LET rest == IF root_is_leaf(p.cnt) THEN DelAt(p.ind_lst, 0) ELSE p.ind_lst
         IN  IF Len(rest) <= 2 THEN [err |-> "none", centers |-> rest]
             ELSE find_center_loop(rest)

\* zip(lst, range(len(lst))), from index i on
RECURSIVE with_index_from(_, _)
with_index_from(l, i) ==
    IF i >= Len(l) THEN <<>> ELSE <<(<<l[i + 1], i>>)>> \o with_index_from(l, i + 1)

with_index(l) == with_index_from(l, 0)

find_center(l) == find_center_loop(with_index(l))

----------------------------------------------------------------------------
(* balance_tree_list.  The list is carried as pairs <<distance, origin>>:  *)
(* the distances are the list of the source, the origin is the index the   *)
(* element had in the argument of gen_tree_from_list, moved along with it. *)

RECURSIVE find_branch_end(_, _, _)
find_branch_end(l, pi, i) ==
    IF i < Len(l) /\ ~(l[i + 1][1] <= l[pi + 1][1]) THEN find_branch_end(l, pi, i + 1)
    ELSE i

\* Returns <<pi, end of the branch + 1>>.
find_branch(l, i) == <<i, find_branch_end(l, i, i + 1)>>

RECURSIVE find_parent(_, _, _)
find_parent(l, i, dist) ==
    IF i >= 0 /\ ~(l[i + 1][1] < dist) THEN find_parent(l, i - 1, dist) ELSE i

\* [d - distance for d in part]
RECURSIVE shifted(_, _)
shifted(part, distance) ==
    IF Len(part) = 0 THEN <<>>
    ELSE <<(<<part[1][1] - distance, part[1][2]>>)>> \o shifted(Tail(part), distance)

\* The first while loop of balance_tree_list: every branch located after the
\* center's branch is copied to its parent's location.
RECURSIVE balance_copy_branches(_, _, _, _)
balance_copy_branches(l, index, mi, parent_index) ==
    IF mi < Len(l)
    THEN LET b  == find_branch(l, mi)
             pi == find_parent(l, parent_index, l[b[1] + 1][1])
             l2 == Slice(l, 0, pi + 1) \o Slice(l, b[1], b[2]) \o SliceFrom(l, pi + 1)
         IN  balance_copy_branches(l2, index + (b[2] - b[1]), b[2] + (b[2] - b[1]), pi)
    ELSE [lst |-> l, index |-> index]

\* A climb that never increments parent_dist: every ancestor's branch is hung
\* at depth 1.
RECURSIVE balance_climb_flat(_, _, _, _)
balance_climb_flat(l, balanced_list, parent_index, parent_dist) ==
    LET child_index == parent_index
        pi          == find_parent(l, parent_index - 1, l[parent_index + 1][1])
    IN  IF pi < 0 THEN balanced_list
        ELSE LET diff == l[pi + 1][1] - parent_dist
             IN  balance_climb_flat(l, balanced_list \o shifted(Slice(l, pi, child_index), diff),
                                    pi, parent_dist)

\* The second loop of balance_tree_list: going up through the center's parents.
RECURSIVE balance_climb(_, _, _, _)
balance_climb(l, balanced_list, parent_index, parent_dist) ==
    LET child_index == parent_index
        pi          == find_parent(l, parent_index - 1, l[parent_index + 1][1])
    IN  IF pi < 0 THEN balanced_list
        ELSE LET diff == l[pi + 1][1] - parent_dist
             IN  balance_climb(l, balanced_list \o shifted(Slice(l, pi, child_index), diff),
                               pi, parent_dist + 1)

\* min(centers, key=index) and max(centers, key=index), for one or two centers.
min_center(cs) == IF Len(cs) = 2 /\ cs[2][2] < cs[1][2] THEN cs[2] ELSE cs[1]
max_center(cs) == IF Len(cs) = 2 /\ cs[2][2] > cs[1][2] THEN cs[2] ELSE cs[1]

\* The first part of the balanced list: the center's branch.
balance_head(l, cs, distance, index, br) ==
    IF Len(cs) = 1 THEN shifted(Slice(l, br[1], br[2]), distance)
    ELSE LET index2 == max_center(cs)[2]
         IN  <<(<<0, l[index + 1][2]>>)>>
             \o shifted(Slice(l, index2, br[2]), distance)
             \o shifted(Slice(l, br[1] + 1, index2), distance)

\* min() of an empty list raises ValueError.
balance_tree_list(l, cs) ==
    IF Len(cs) = 0 THEN [err |-> "ValueError", lst |-> <<>>]
    ELSE LET distance == min_center(cs)[1]
             index    == min_center(cs)[2]
         IN  IF Len(cs) = 1 /\ index = 0 THEN [err |-> "none", lst |-> l]
             ELSE LET br   == find_branch(l, index)
                      head == balance_head(l, cs, distance, index, br)
                      c    == balance_copy_branches(l, index, br[2], index - 1)
                  IN  [err |-> "none", lst |-> balance_climb(c.lst, head, c.index, 1)]

\* The distances, and the origins, of a list of pairs.
RECURSIVE distances(_)
distances(l) == IF Len(l) = 0 THEN <<>> ELSE <<l[1][1]>> \o distances(Tail(l))

RECURSIVE origins(_)
origins(l) == IF Len(l) = 0 THEN <<>> ELSE <<l[1][2]>> \o origins(Tail(l))

----------------------------------------------------------------------------
(* Node objects and the tree-building loop of gen_tree_from_list.          *)

\* The parent None.
NoParent == -2
\* The key of the node added to a symmetric tree.
SuperRoot == -1

\* Node(parent, distance).  The label attribute, which the source first sets in
\* reset_labeling (before any read of it), is present from the start.
Node(parent, distance) ==
    [parent |-> parent, symm |-> FALSE, distance |-> distance,
     children_list |-> <<>>, ordervect |-> <<>>, m |-> 1, label |-> 0]

\* The dictionary d with d[k] = v set.
Put(d, k, v) == (k :> v) @@ d

\* The while loop that climbs from pnode to the first node whose distance is
\* smaller than dist; NoParent when the climb leaves the tree (t[None]: KeyError).
RECURSIVE climb_to_parent(_, _, _)
climb_to_parent(tt, pnode, dist) ==
    IF pnode = NoParent THEN NoParent
    ELSE IF tt[pnode].distance >= dist THEN climb_to_parent(tt, tt[pnode].parent, dist)
    ELSE pnode

\* The for loop of gen_tree_from_list from index i on (node = i).
RECURSIVE build_tree(_, _, _, _)
build_tree(l, tt, i, pnode) ==
    IF i >= Len(l) THEN [err |-> "none", t |-> tt]
    ELSE LET p == IF l[i + 1] <= l[i]
                  THEN climb_to_parent(tt, tt[pnode].parent, l[i + 1])
                  ELSE pnode
         IN  IF p = NoParent THEN [err |-> "KeyError", t |-> tt]
             ELSE LET t1 == Put(tt, i, Node(p, l[i + 1]))
                      t2 == [t1 EXCEPT ![p].children_list = Append(@, i)]
                  IN  build_tree(l, t2, i + 1, i)

----------------------------------------------------------------------------
(* sort_tree.                                                              *)

\* Python's comparison of two ordervects (lists whose first element is an int
\* and whose other elements are ordervects): -1, 0 or 1.
RECURSIVE ordervect_cmp(_, _)
RECURSIVE ordervect_cmp_from(_, _, _)
ordervect_cmp(a, b) == ordervect_cmp_from(a, b, 1)
ordervect_cmp_from(a, b, k) ==
    IF k > Len(a) /\ k > Len(b) THEN 0
    ELSE IF k > Len(a) THEN -1
    ELSE IF k > Len(b) THEN 1
    ELSE LET c == IF k = 1
                  THEN (IF a[1] < b[1] THEN -1 ELSE IF a[1] > b[1] THEN 1 ELSE 0)
                  ELSE ordervect_cmp(a[k], b[k])
         IN  IF c # 0 THEN c ELSE ordervect_cmp_from(a, b, k + 1)

\* The position (0-based) at which a stable sort inserts key ov in the sorted
\* list of nodes ns: after every node whose ordervect is not greater.
RECURSIVE insert_position(_, _, _, _)
insert_position(tt, ns, ov, k) ==
    IF k < Len(ns) /\ ordervect_cmp(tt[ns[k + 1]].ordervect, ov) <= 0
    THEN insert_position(tt, ns, ov, k + 1)
    ELSE k

\* sorted(children, key=ordervect): a stable sort.
RECURSIVE sorted_by_ordervect(_, _, _)
sorted_by_ordervect(tt, ns, acc) ==
    IF Len(ns) = 0 THEN acc
    ELSE LET k == insert_position(tt, acc, tt[ns[1]].ordervect, 0)
         IN  sorted_by_ordervect(tt, Tail(ns),
                                 Slice(acc, 0, k) \o <<ns[1]>> \o SliceFrom(acc, k))

\* The ordervects of the nodes ns, in order.
RECURSIVE ordervects(_, _)
ordervects(tt, ns) ==
    IF Len(ns) = 0 THEN <<>> ELSE <<tt[ns[1]].ordervect>> \o ordervects(tt, Tail(ns))

RECURSIVE sort_tree(_, _)
RECURSIVE sort_children(_, _, _)
\* The for loop of sort_tree over the children from index i on.
sort_children(tt, ns, i) ==
    IF i >= Len(ns) THEN tt ELSE sort_children(sort_tree(tt, ns[i + 1]), ns, i + 1)

sort_tree(tt, node) ==
    LET ns  == tt[node].children_list
        t1  == sort_children(tt, ns, 0)
        srt == IF Len(ns) > 1 THEN sorted_by_ordervect(t1, ns, <<>>) ELSE ns
    IN  [t1 EXCEPT ![node].children_list = srt,
                   ![node].ordervect = <<Len(ns)>> \o ordervects(t1, srt)]

----------------------------------------------------------------------------
(* is_symmetric.                                                           *)

\* q.remove(x): the list without the first occurrence of x.  (x is in the list
\* wherever the source removes it: node 1 is a child of node 0 in every tree
\* built from a list of more than one element.)
RECURSIVE list_remove(_, _)
list_remove(q, x) ==
    IF Len(q) = 0 THEN q
    ELSE IF q[1] = x THEN Tail(q)
    ELSE <<q[1]>> \o list_remove(Tail(q), x)

\* The while loop of is_symmetric: the pairs <<q1, q2>> of the two queues at
\* each evaluation of the loop condition, the last pair being the one that
\* ends the loop.
RECURSIVE is_symmetric_loop(_, _, _)
is_symmetric_loop(tt, q1, q2) ==
    IF Len(q1) = Len(q2) /\ Len(q1) > 0
    THEN <<(<<q1, q2>>)>> \o is_symmetric_loop(tt, Tail(q1) \o tt[q1[1]].children_list,
                                                   Tail(q2) \o tt[q2[1]].children_list)
    ELSE <<(<<q1, q2>>)>>

\* The queues of is_symmetric, from the initial pair (node 1 removed from q1) on.
is_symmetric_queues(tt) ==
    is_symmetric_loop(tt, list_remove(tt[0].children_list, 1), tt[1].children_list)

\* The first level only: the two centers have equally many other children.
is_symmetric_first_level(tt) ==
    IF Cardinality(DOMAIN tt) = 1 THEN FALSE
    ELSE Len(list_remove(tt[0].children_list, 1)) = Len(tt[1].children_list)

\* return len(q1) == 0, on the queues that ended the loop.
is_symmetric(tt) ==
    IF Cardinality(DOMAIN tt) = 1 THEN FALSE
    ELSE LET qs == is_symmetric_queues(tt) IN Len(qs[Len(qs)][1]) = 0

----------------------------------------------------------------------------
(* reset_labeling, eq_subtree, gen_eq_tree, gen_tree_from_list.            *)

RECURSIVE reset_labeling(_, _)
RECURSIVE reset_children(_, _, _)
\* The for loop of reset_labeling over the children from index i on.
reset_children(tt, ns, i) ==
    IF i >= Len(ns) THEN tt ELSE reset_children(reset_labeling(tt, ns[i + 1]), ns, i + 1)

reset_labeling(tt, s) ==
    reset_children([tt EXCEPT ![s].label = 0], tt[s].children_list, 0)

\* The inner while loop of eq_subtree: the end (0-based, exclusive) of the run of
\* children of n, from index j on, whose ordervect equals that of child i.
RECURSIVE eq_run_end(_, _, _, _)
eq_run_end(tt, n, i, j) ==
    IF /\ j < Len(tt[n].children_list)
       /\ ordervect_cmp(tt[tt[n].children_list[j + 1]].ordervect,
                        tt[tt[n].children_list[i + 1]].ordervect) = 0
    THEN eq_run_end(tt, n, i, j + 1)
    ELSE j

RECURSIVE eq_subtree(_, _, _, _)
RECURSIVE eq_subtree_loop(_, _, _, _, _)
\* The outer while loop of eq_subtree from index i on.
eq_subtree_loop(tt, e, n, en, i) ==
    IF i >= Len(tt[n].children_list) THEN e
    ELSE LET j  == eq_run_end(tt, n, i, i + 1)
             an == Cardinality(DOMAIN e)
             e1 == Put(e, an, [Node(en, 0) EXCEPT !.m = j - i])
             e2 == [e1 EXCEPT ![en].children_list = Append(@, an)]
             e3 == eq_subtree(tt, e2, tt[n].children_list[i + 1], an)
         IN  eq_subtree_loop(tt, e3, n, en, j)

eq_subtree(tt, e, n, en) == eq_subtree_loop(tt, e, n, en, 0)

\* The symmetric branch of gen_eq_tree: the new node -1 gets the two centers as
\* children, the edge between them is removed and the tree is sorted again.
add_super_root(tt) ==
    LET t1 == [tt EXCEPT ![0].symm = TRUE]
        t2 == Put(t1, SuperRoot, [Node(NoParent, 0) EXCEPT !.children_list = <<0, 1>>])
        t3 == [t2 EXCEPT ![0].parent = SuperRoot,
                         ![0].children_list = list_remove(@, 1)]
    IN  sort_tree(t3, SuperRoot)

\* Returns the tree and the equivalence tree.
gen_eq_tree(tt, cs) ==
    LET t1      == sort_tree(tt, 0)
        symm    == Len(cs) = 2 /\ is_symmetric(t1)
        t2      == IF symm THEN add_super_root(t1) ELSE t1
        root_id == IF symm THEN SuperRoot ELSE 0
        e0      == Put(<<>>, root_id, Node(NoParent, 0))
    IN  [t |-> reset_labeling(t2, root_id), et |-> eq_subtree(t2, e0, root_id, root_id)]

\* Lists of more than two elements are balanced around their center(s).
needs_balancing(l) == Len(l) > 2

\* l is the argument as a list of pairs <<distance, its own index>>.
gen_tree_from_list(l) ==
    LET fc == IF needs_balancing(l) THEN find_center(distances(l))
              ELSE [err |-> "none", centers |-> <<>>]
        bl == IF ~needs_balancing(l) THEN [err |-> "none", lst |-> l]
              ELSE IF fc.err # "none" THEN [err |-> fc.err, lst |-> <<>>]
              ELSE balance_tree_list(l, fc.centers)
        bt == IF bl.err # "none" THEN [err |-> bl.err, t |-> <<>>]
              ELSE build_tree(distances(bl.lst), Put(<<>>, 0, Node(NoParent, 0)), 1, 0)
        ge == IF bt.err # "none" THEN [t |-> <<>>, et |-> <<>>]
              ELSE gen_eq_tree(bt.t, fc.centers)
    IN  [err |-> bt.err, centers |-> fc.centers, lst |-> bl.lst, t |-> ge.t, et |-> ge.et]

----------------------------------------------------------------------------
(* copy_branch_labeling, _next_labeling, next_labeling.                    *)

RECURSIVE copy_branch_labeling(_, _, _)
RECURSIVE copy_branch_children(_, _, _, _)
\* The for loop of copy_branch_labeling from index i on.
copy_branch_children(tt, source_node, dest_node, i) ==
    IF i >= Len(tt[source_node].children_list) THEN tt
    ELSE copy_branch_children(
             copy_branch_labeling(tt, tt[source_node].children_list[i + 1],
                                  tt[dest_node].children_list[i + 1]),
             source_node, dest_node, i + 1)

copy_branch_labeling(tt, source_node, dest_node) ==
    copy_branch_children([tt EXCEPT ![dest_node].label = tt[source_node].label],
                         source_node, dest_node, 0)

\* The loop "for k in xrange(j)" of _next_labeling from k on: the equivalent
\* siblings before anode get anode's labeling.
RECURSIVE copy_to_earlier_siblings(_, _, _, _, _, _)
copy_to_earlier_siblings(tt, n, anode, nind, j, k) ==
    IF k >= j THEN tt
    ELSE copy_to_earlier_siblings(
             copy_branch_labeling(tt, anode, tt[n].children_list[nind + k + 1]),
             n, anode, nind, j, k + 1)

\* valid_label with the bound off by one: the last label is never used.
valid_label_short(label, ml) == label < ml - 1

\* A label is valid when it is below the alphabet's size.
valid_label(label, ml) == label < ml

\* advance_own_label without the wrap to 0 of an exhausted node's label.
advance_own_label_no_wrap(tt, n, ml) ==
    LET t1 == [tt EXCEPT ![n].label = @ + 1] IN
    IF valid_label(t1[n].label, ml)
    THEN [ok |-> TRUE, t |-> reset_children(t1, t1[n].children_list, 0)]
    ELSE [ok |-> FALSE, t |-> t1]

\* The else branch of _next_labeling: the node's own label is increased; the
\* children are reset when it is still valid, otherwise it wraps to 0 and the
\* call returns False.
advance_own_label(tt, n, ml) ==
    LET t1 == [tt EXCEPT ![n].label = @ + 1] IN
    IF valid_label(t1[n].label, ml)
    THEN [ok |-> TRUE, t |-> reset_children(t1, t1[n].children_list, 0)]
    ELSE [ok |-> FALSE, t |-> [t1 EXCEPT ![n].label = 0]]

RECURSIVE _next_labeling(_, _, _, _, _)
RECURSIVE next_labeling_children(_, _, _, _, _, _, _, _)
\* The two nested for loops of _next_labeling, at the ei-th (0-based) child
\* eqnode of en and the j-th node of its run, which starts at index nind.
next_labeling_children(tt, e, n, en, ml, ei, j, nind) ==
    IF ei >= Len(e[en].children_list) THEN advance_own_label(tt, n, ml)
    ELSE LET eqnode == e[en].children_list[ei + 1] IN
         IF j >= e[eqnode].m
         THEN next_labeling_children(tt, e, n, en, ml, ei + 1, 0, nind + e[eqnode].m)
         ELSE LET anode == tt[n].children_list[nind + j + 1]
                  r     == IF valid_label(tt[anode].label, ml)
                           THEN _next_labeling(tt, e, anode, eqnode, ml)
                           ELSE [ok |-> FALSE, t |-> tt]
              IN  IF r.ok
                  THEN [ok |-> TRUE,
                        t |-> copy_to_earlier_siblings(r.t, n, anode, nind, j, 0)]
                  ELSE next_labeling_children(r.t, e, n, en, ml, ei, j + 1, nind)

_next_labeling(tt, e, n, en, ml) == next_labeling_children(tt, e, n, en, ml, 0, 0, 0)

\* sorted(S) for a set of integers
RECURSIVE sorted(_)
sorted(S) ==
    IF S = {} THEN <<>>
    ELSE LET lo == CHOOSE x \in S : \A y \in S : x <= y
         IN  <<lo>> \o sorted(S \ {lo})

\* labeling_keys without the removal of the added node's key.
labeling_keys_all(tt) == sorted(DOMAIN tt)

\* keys of next_labeling: the sorted keys of t, without -1 for a symmetric tree.
labeling_keys(tt) ==
    IF tt[0].symm THEN list_remove(sorted(DOMAIN tt), SuperRoot) ELSE sorted(DOMAIN tt)

RECURSIVE graph_labeling_to_list(_, _)
graph_labeling_to_list(tt, keys) ==
    IF Len(keys) = 0 THEN <<>>
    ELSE <<tt[keys[1]].label>> \o graph_labeling_to_list(tt, Tail(keys))

\* The node next_labeling advances: the added node of a symmetric tree, else 0.
labeling_root(tt) == IF tt[0].symm THEN SuperRoot ELSE 0

\* symmetric_end without the check of the added node's label.
symmetric_end_never(tt) == FALSE

\* The enumeration of a symmetric tree ends when the added node's label changes.
symmetric_end(tt) == tt[0].symm /\ tt[SuperRoot].label # 0

----------------------------------------------------------------------------
(* The state machine: get_labeled_graphs checks its arguments, builds the  *)
(* trees with gen_tree_from_list and pulls next_labeling until it ends.    *)

Init ==
    /\ arg \in TreeArgs \cup RawArgs
    /\ max_label \in MaxLabelArgs
    /\ pc = "start"
    /\ err = "none"
    /\ centers = <<>>
    /\ lst = <<>>
    /\ origin = <<>>
    /\ t = <<>>
    /\ et = <<>>
    /\ out = <<>>
    /\ yielded = <<>>

\* The two argument checks of get_labeled_graphs.
CheckArguments ==
    /\ pc = "start"
    /\ IF bad_tree_description(arg)
       THEN pc' = "raised" /\ err' = "ValueError: tree description"
       ELSE IF bad_alphabet_size(max_label)
       THEN pc' = "raised" /\ err' = "ValueError: maxlabel"
       ELSE pc' = "checked" /\ err' = err
    /\ UNCHANGED <<arg, max_label, centers, lst, origin, t, et, out, yielded>>

\* The call of gen_tree_from_list.
GenTreeFromList ==
    /\ pc = "checked"
    /\ LET g == gen_tree_from_list(with_index(Ints(arg.items))) IN
       IF g.err # "none"
       THEN /\ pc' = "raised"
            /\ err' = g.err
            /\ UNCHANGED <<centers, lst, origin, t, et>>
       ELSE /\ pc' = "built"
            /\ err' = err
            /\ centers' = g.centers
            /\ lst' = distances(g.lst)
            /\ origin' = origins(g.lst)
            /\ t' = g.t
            /\ et' = g.et
    /\ UNCHANGED <<arg, max_label, out, yielded>>

\* The first pull of next_labeling: the all-zero labeling is yielded.
FirstLabeling ==
    /\ pc = "built"
    /\ out' = graph_labeling_to_list(t, labeling_keys(t))
    /\ yielded' = Append(yielded, out')
    /\ pc' = "yielded"
    /\ UNCHANGED <<arg, max_label, err, centers, lst, origin, t, et>>

\* A later pull of next_labeling: one call of _next_labeling on the root, then
\* either a yield or the end of the generator.
NextLabeling ==
    /\ pc = "yielded"
    /\ LET r == _next_labeling(t, et, labeling_root(t), labeling_root(t), max_label.v) IN
       /\ t' = r.t
       /\ IF r.ok /\ ~symmetric_end(r.t)
          THEN /\ out' = graph_labeling_to_list(r.t, labeling_keys(r.t))
               /\ yielded' = Append(yielded, out')
               /\ pc' = "yielded"
          ELSE /\ pc' = "done"
               /\ UNCHANGED <<out, yielded>>
    /\ UNCHANGED <<arg, max_label, err, centers, lst, origin, et>>

Next == CheckArguments \/ GenTreeFromList \/ FirstLabeling \/ NextLabeling

Spec == Init /\ [][Next]_vars

\* gen_tree_from_list alone, on longer depth sequences: the arguments are
\* checked and the trees are built, no labeling is pulled.
BuildArgs ==
    {AsList(s) : s \in UNION {TreeSeqs(n) : n \in 1..MaxBuildLen}} \cup RawArgs

BuildInit ==
    /\ arg \in BuildArgs
    /\ max_label = IntElem(1)
    /\ pc = "start"
    /\ err = "none"
    /\ centers = <<>>
    /\ lst = <<>>
    /\ origin = <<>>
    /\ t = <<>>
    /\ et = <<>>
    /\ out = <<>>
    /\ yielded = <<>>

BuildNext == CheckArguments \/ GenTreeFromList

BuildSpec == BuildInit /\ [][BuildNext]_vars

----------------------------------------------------------------------------
(* The free tree that the argument encodes, defined from the encoding      *)
(* alone.  Vertices are the positions 1..N of the depth sequence.          *)

\* The argument is a list of integers that encodes a tree.
ArgIsTree ==
    /\ arg.list
    /\ \A i \in 1..Len(arg.items) : arg.items[i].ty = "int"
    /\ IsTreeSeq(Ints(arg.items))

\* max_label is a positive integer.
AlphabetOk == max_label.ty = "int" /\ max_label.v >= 1

InSeq == Ints(arg.items)
N == Len(arg.items)
Labels == 0..(max_label.v - 1)

\* The parent of vertex i > 1: the nearest earlier vertex one level up.
ParentOf(s, i) ==
    CHOOSE j \in 1..(i - 1) :
        s[j] = s[i] - 1 /\ \A k \in (j + 1)..(i - 1) : s[k] >= s[i]

EdgesOf(s) == {{ParentOf(s, i), i} : i \in 2..Len(s)}

\* The ancestors of a vertex, itself included.
RECURSIVE AncestorsOf(_, _)
AncestorsOf(s, i) == IF i = 1 THEN {1} ELSE {i} \cup AncestorsOf(s, ParentOf(s, i))

\* The number of edges on the path between u and v.
DistOf(s, u, v) ==
    LET common == AncestorsOf(s, u) \cap AncestorsOf(s, v)
        top    == CHOOSE a \in common : \A b \in common : s[b] <= s[a]
    IN  s[u] + s[v] - 2 * s[top]

EccOf(s, u) ==
    CHOOSE d \in 0..Len(s) :
        /\ \E v \in 1..Len(s) : DistOf(s, u, v) = d
        /\ \A v \in 1..Len(s) : DistOf(s, u, v) <= d

\* The vertices of minimum eccentricity, and the diameter.
CentersOf(s) ==
    {u \in 1..Len(s) : \A v \in 1..Len(s) : EccOf(s, u) <= EccOf(s, v)}

DiameterOf(s) ==
    CHOOSE d \in 0..Len(s) :
        /\ \E u \in 1..Len(s) : EccOf(s, u) = d
        /\ \A u \in 1..Len(s) : EccOf(s, u) <= d

\* The automorphisms of the tree, as sequences p with p[v] the image of v.  They
\* are built vertex by vertex: the image of a vertex is a vertex not used yet
\* that is adjacent to the image of its parent.
RECURSIVE ExtendMaps(_, _, _)
ExtendMaps(s, maps, i) ==
    IF i > Len(s) THEN maps
    ELSE ExtendMaps(s,
             UNION {{Append(p, w) : w \in {w \in 1..Len(s) :
                                            /\ {p[ParentOf(s, i)], w} \in EdgesOf(s)
                                            /\ \A k \in 1..(i - 1) : p[k] # w}}
                    : p \in maps},
             i + 1)

AutOf(s) == ExtendMaps(s, {<<v>> : v \in 1..Len(s)}, 2)

\* A yielded vector read as a labeling of the argument's tree: position j of the
\* vector labels the vertex that the node at position j of lst came from.
AsLabeling(y) ==
    [v \in 1..N |-> y[CHOOSE j \in 1..Len(origin) : origin[j] = v - 1]]

\* The labelings obtained from labeling a by the automorphisms in auts.
OrbitOf(a, auts) == {[v \in 1..Len(a) |-> a[p[v]]] : p \in auts}

----------------------------------------------------------------------------
(* Claims.                                                                 *)

\* C1: for every depth sequence that encodes a tree and every max_label >= 1,
\* no two labelings yielded by one enumeration can be obtained from one another
\* by an automorphism of the tree (in particular no vector is yielded twice).
C1_NoTwoEquivalent ==
    (ArgIsTree /\ AlphabetOk /\ pc \in {"yielded", "done"}) =>
        LET auts == AutOf(InSeq) IN
        \A i \in 1..Len(yielded) : \A j \in (i + 1)..Len(yielded) :
            AsLabeling(yielded[j]) \notin OrbitOf(AsLabeling(yielded[i]), auts)

\* C2: for every depth sequence that encodes a tree and every max_label >= 1,
\* when the enumeration has ended every assignment of the labels
\* 0..max_label-1 to the vertices is obtained by some automorphism of the tree
\* from a yielded labeling.
C2_NoOrbitOmitted ==
    (ArgIsTree /\ AlphabetOk /\ pc = "done") =>
        LET auts    == AutOf(InSeq)
            covered == UNION {OrbitOf(AsLabeling(yielded[i]), auts) : i \in 1..Len(yielded)}
        IN  \A a \in [1..N -> Labels] : a \in covered

\* C2 witness: an enumeration ended on a tree of at least 3 vertices having
\* yielded fewer vectors than there are assignments, so that some assignment is
\* covered only through an automorphism.
C2_Witness ==
    /\ ArgIsTree /\ AlphabetOk /\ pc = "done"
    /\ N >= 3 /\ max_label.v >= 2
    /\ Len(yielded) < Pow(max_label.v, N)

\* C3: for the sequence [0,1] the enumeration yields exactly
\* max_label*(max_label+1)/2 labelings; with max_label = 2 exactly (0,0), (1,0),
\* (1,1) in that order, with max_label = 1 exactly (0,0).
C3_TwoNodeTree ==
    (ArgIsTree /\ AlphabetOk /\ InSeq = <<0, 1>> /\ pc = "done") =>
        /\ 2 * Len(yielded) = max_label.v * (max_label.v + 1)
        /\ max_label.v = 2 => yielded = <<(<<0, 0>>), <<1, 0>>, <<1, 1>> >>
        /\ max_label.v = 1 => yielded = <<(<<0, 0>>)>>

\* C4 (as claimed): position i of every yielded vector is the label of the node
\* that stood at index i of the input sequence, also when the tree was re-rooted.
C4_AlignedToInput ==
    (ArgIsTree /\ AlphabetOk /\ pc = "yielded") =>
        \A j \in 1..Len(origin) : out[origin[j] + 1] = t[j - 1].label

\* C4 (amended): position i of every yielded vector is the label of node i of
\* the balanced list that gen_tree_from_list returns, the node built from its
\* i-th element; the vector follows the input numbering only where balancing
\* left the node at its index.
C4_AlignedToBalanced ==
    (ArgIsTree /\ AlphabetOk /\ pc = "yielded") =>
        /\ Len(out) = Len(lst)
        /\ \A j \in 1..Len(lst) :
              /\ out[j] = t[j - 1].label
              /\ t[j - 1].distance = lst[j]
              /\ origin[j] = j - 1 => out[origin[j] + 1] = t[j - 1].label

\* C4 witness: a vector with different labels yielded for a symmetric tree that
\* was re-rooted (no node kept its index).
C4_Witness ==
    /\ ArgIsTree /\ AlphabetOk /\ pc = "yielded"
    /\ t[0].symm
    /\ \A j \in 1..Len(origin) : origin[j] # j - 1
    /\ \E i, j \in 1..Len(out) : out[i] # out[j]

\* C5: for every sequence that is_proper_traversal accepts (on a list) and every
\* positive integer max_label, the whole pipeline runs without raising an error.
C5_AcceptedNeverRaises ==
    (~bad_tree_description(arg) /\ AlphabetOk) => (pc # "raised" /\ err = "none")

\* The vertices on u's side of the edge {u, v}.
SideOf(s, u, v) == {x \in 1..Len(s) : DistOf(s, u, x) < DistOf(s, v, x)}

\* The number of labelings of the half rooted at center u (v being the other
\* center) up to the automorphisms of the half that fix its root.
HalfLabelings(s, u, v) ==
    LET half  == SideOf(s, u, v)
        fixed == {p \in AutOf(s) : p[u] = u /\ \A x \in 1..Len(s) \ half : p[x] = x}
    IN  Cardinality({ {[x \in half |-> a[p[x]]] : p \in fixed} : a \in [half -> Labels] })

\* C6: for every tree with two centers whose halves are isomorphic the
\* enumeration yields exactly L*(L+1)/2 labelings, L being the number of
\* labelings of one rooted half up to its root-fixing automorphisms (10 for
\* [0,1,1,2] with max_label 2, 45 with max_label 3).
C6_SymmetricCount ==
    (ArgIsTree /\ AlphabetOk /\ pc = "done") =>
        \A u, v \in CentersOf(InSeq) :
            (u # v /\ \E p \in AutOf(InSeq) : p[u] = v) =>
                LET L == HalfLabelings(InSeq, u, v)
                IN  2 * Len(yielded) = L * (L + 1)

\* What the contract of get_labeled_graphs calls a bad tree description: not a
\* list, empty, not starting with 0, a non-integer element, or an element more
\* than 1 greater than its predecessor.
BadDescription(a) ==
    \/ ~a.list
    \/ Len(a.items) = 0
    \/ ~(a.items[1].ty \in {"int", "float"} /\ a.items[1].v = 0)
    \/ \E i \in 1..Len(a.items) : a.items[i].ty # "int"
    \/ \E i \in 2..Len(a.items) :
           /\ a.items[i].ty = "int" /\ a.items[i - 1].ty = "int"
           /\ a.items[i].v > a.items[i - 1].v + 1

C8_LabelsInRange ==
    (ArgIsTree /\ AlphabetOk /\ pc \in {"built", "yielded", "done"}) =>
        /\ \A k \in (DOMAIN t) \ {SuperRoot} : t[k].label \in Labels
        /\ Cardinality((DOMAIN t) \ {SuperRoot}) = N
        /\ \A i \in 1..Len(yielded) :
              /\ Len(yielded[i]) = N
              /\ \A j \in 1..N : yielded[i][j] \in Labels

\* C8 witness: the enumeration of a symmetric tree has ended with the added
\* node's label changed, after vectors that use the largest label.
C8_Witness ==
    /\ ArgIsTree /\ AlphabetOk /\ pc = "done"
    /\ t[0].symm /\ t[SuperRoot].label # 0
    /\ \E j \in 1..N : out[j] = max_label.v - 1 /\ out[j] > 0

\* C9: for every depth sequence that encodes a tree with N vertices and every
\* max_label >= 1 the enumeration terminates, after at most max_label^N vectors:
\* every pull of the generator either yields one more vector or ends it, and
\* the vectors yielded never number more than max_label^N, so the generator
\* ends within max_label^N + 1 pulls.
C9_Terminates ==
    /\ [](ArgIsTree /\ AlphabetOk => Len(yielded) <= Pow(max_label.v, N))
    /\ [][(ArgIsTree /\ AlphabetOk /\ pc \in {"built", "yielded"}) =>
             \/ pc' = "done" /\ yielded' = yielded
             \/ pc' = "yielded" /\ Len(yielded') = Len(yielded) + 1]_vars

\* C9 witness: an enumeration that ended after several pulls on a tree of at
\* least 3 vertices.
C9_Witness ==
    /\ ArgIsTree /\ AlphabetOk /\ pc = "done"
    /\ N >= 3 /\ Len(yielded) >= 6

\* C10: for every depth sequence that encodes a tree with at least 3 nodes
\* find_center returns, with their original indices and depths, exactly the
\* nodes of minimum eccentricity: one node when the diameter is even, two
\* adjacent nodes when it is odd.
C10_CentersExact ==
    (ArgIsTree /\ N >= 3 /\ pc = "built") =>
        /\ {centers[k][2] + 1 : k \in 1..Len(centers)} = CentersOf(InSeq)
        /\ \A k \in 1..Len(centers) : centers[k][1] = InSeq[centers[k][2] + 1]
        /\ DiameterOf(InSeq) % 2 = 0 => Len(centers) = 1
        /\ DiameterOf(InSeq) % 2 = 1 =>
              /\ Len(centers) = 2
              /\ {centers[1][2] + 1, centers[2][2] + 1} \in EdgesOf(InSeq)

\* C10 witness: two centers found, neither of them the root of the input.
C10_Witness ==
    /\ ArgIsTree /\ N >= 4 /\ pc = "built"
    /\ Len(centers) = 2
    /\ centers[1][2] # 0 /\ centers[2][2] # 0

----------------------------------------------------------------------------
\* C11: for a tree of at least 3 nodes, the list that balance_tree_list returns
\* has the length of the input, is a pre-order depth encoding of a tree (starts
\* at 0, every later element between 1 and its predecessor plus 1), and encodes
\* the input tree re-rooted: the nodes of the balanced list are the nodes of the
\* input, each once, every edge of the balanced tree is an edge of the input
\* tree, node 0 is the center of lower input index and, with two centers, node
\* 1 is the other center; when the root is the only center the list is the
\* input unchanged.
C11_BalancedIsomorphic ==
    (pc = "built" /\ ArgIsTree /\ N >= 3) =>
        /\ Len(lst) = N
        /\ IsTreeSeq(lst)
        /\ Len(origin) = N
        /\ {origin[j] : j \in 1..N} = 0..(N - 1)
        /\ \A e \in EdgesOf(lst) : {origin[j] + 1 : j \in e} \in EdgesOf(InSeq)
        /\ origin[1] = min_center(centers)[2]
        /\ Len(centers) = 2 => origin[2] = max_center(centers)[2]
        /\ centers = <<(<<0, 0>>)>> => lst = InSeq

\* C11 witness: a single center two levels below the root, so that the list is
\* rebuilt around it and the root's branch is hung two levels down.
C11_Witness ==
    /\ pc = "built" /\ ArgIsTree /\ N >= 5
    /\ Len(centers) = 1
    /\ centers[1][1] >= 2
    /\ lst # InSeq
    /\ \E j \in 1..N : origin[j] = 0 /\ lst[j] >= 2

----------------------------------------------------------------------------
\* The part of the tree s on the side of vertex 1, rooted at vertex 1, is
\* isomorphic as a rooted tree to the subtree rooted at vertex 2 (a child of
\* vertex 1): some automorphism of s exchanges the two vertices.
HalvesIsomorphic(s) == \E p \in ExtendMaps(s, {<<2>>}, 2) : p[2] = 1

\* The balanced tree as is_symmetric receives it: built from lst and sorted.
SortedBalancedTree ==
    sort_tree(build_tree(lst, Put(<<>>, 0, Node(NoParent, 0)), 1, 0).t, 0)

\* C12: on the balanced, sorted tree of an argument with two centers (node 0
\* and its child node 1), is_symmetric returns true only if the two queues had
\* equal lengths at every evaluation of the loop condition and are both empty
\* at the end, and it returns true exactly when the subtree rooted at node 1 is
\* isomorphic, as a rooted tree, to the rest of the tree rooted at node 0.  For
\* more than two nodes the value is the one gen_eq_tree stored in t[0].symm.
C12_SymmetricExact ==
    (pc = "built" /\ ArgIsTree /\ Cardinality(CentersOf(InSeq)) = 2) =>
        LET tt == SortedBalancedTree
            qs == is_symmetric_queues(tt)
        IN  /\ is_symmetric(tt) =>
                  /\ \A k \in 1..Len(qs) : Len(qs[k][1]) = Len(qs[k][2])
                  /\ qs[Len(qs)] = <<(<<>>), (<<>>)>>
            /\ is_symmetric(tt) <=> HalvesIsomorphic(lst)
            /\ N >= 3 => t[0].symm = is_symmetric(tt)

\* C12 witness: two centers whose halves are isomorphic and hold two or more
\* nodes besides the center: the loop runs twice or more, the queues empty
\* together, is_symmetric returns true and gen_eq_tree adds the node -1.
C12_Witness ==
    /\ pc = "built" /\ ArgIsTree /\ Len(centers) = 2
    /\ LET qs == is_symmetric_queues(SortedBalancedTree)
       IN  /\ Len(qs) >= 3
           /\ qs[Len(qs)] = <<(<<>>), (<<>>)>>
    /\ t[0].symm
    /\ SuperRoot \in DOMAIN t
    /\ HalvesIsomorphic(lst)

=============================================================================
